---- MODULE Spec2Model ----
(***************************************************************************)
(* A model of the video preview tool screenshots.py: the top-level loop    *)
(* over input files, the clip extraction stage, the batched dispatcher     *)
(* ffmpeg_mimo, the trial variant encoder choose_dither_algo and the two   *)
(* size-targeting searches create_gif and create_webp.                     *)
(*                                                                         *)
(* Python floats are represented in fixed point: frame rates in 1/100 fps  *)
(* (FPS), base-2 logarithms in 1/1000 (Log2), rounded down.  The ratio     *)
(* r = file_size_max / s is kept as an exact fraction.                     *)
(***************************************************************************)
EXTENDS Integers, Sequences, FiniteSets, TLC

VARIABLES
    \* main / process_video
    pc,             \* position of the single thread of control
    files,          \* len(args.files)
    i,              \* main's counter of inputs started
    returncode,     \* main's returncode
    outcomes,       \* per started input: "ok", "CalledProcessError", "Exception"
    failedAt,       \* stage in which the last exception was raised
    args,           \* the parsed command line: keep, gif_clips, webp_clips, file_size_max
    video,          \* VideoMetadata of the current input: its frame rate
    fs,             \* the files under the current args.prefix
    \* create_gif
    depth, frame_rate, multi_palette, s, trials, stat_sizes,
    \* create_webp
    quality, size,
    \* the encoder stub: its factor k, or 0 for the real encoder
    stub_k,
    \* next_guess run on its own: r, new_depth, new_frame_rate, its position
    \* and the passes of its while loop
    r, new_depth, new_frame_rate, guess_pc, passes,
    \* ffmpeg_mimo
    inputs, outputs, limit, mimo_pc, mimo_i, calls,
    \* prepare_clips
    clip, clip_pc, clip_i, clip_files, ffinputs

mainVars == <<pc, files, i, returncode, outcomes, failedAt, args, video, fs>>
gifVars  == <<depth, frame_rate, multi_palette, s, trials, stat_sizes>>
webpVars == <<quality, size>>
mimoVars == <<inputs, outputs, limit, mimo_pc, mimo_i, calls>>
clipVars == <<clip, clip_pc, clip_i, clip_files, ffinputs>>
guessVars == <<r, new_depth, new_frame_rate, guess_pc, passes>>
otherVars == <<stub_k, mimoVars, clipVars, guessVars>>
vars == <<mainVars, gifVars, webpVars, otherVars>>

-----------------------------------------------------------------------------
(* Bounds of the model *)

MaxFiles  == 2      \* inputs on the command line
MaxTrials == 6      \* trial encodes followed in one search
MaxJobs   == 7      \* jobs handed to ffmpeg_mimo
MaxLimit  == 3      \* batch limits tried for ffmpeg_mimo
MaxDur    == 8      \* source durations, in seconds
MaxK      == 3      \* factors k of the encoder stub

\* byte sizes an encoder reports, and budgets (--file-size-max) tried
EncodedSizes == {3, 16}
Budgets      == {8, 15}
\* frame rates of the probed sources, in 1/100 fps (20 fps, 60 fps)
SourceRates  == {2000, 6000}

-----------------------------------------------------------------------------
(* Program constants: DEFAULT_ARGS and the literals of the searches *)

gif_color_depth_min == 96
gif_color_depth_max == 256
gif_frame_rate_min  == 12
gif_frame_rate_max  == 50
frames              == 20
montage_columns     == 5
montage_rows        == 10
InitialQuality      == 95

FPS(x) == x * 100

PLAYLIST_FILE == "playlist.txt"
CLIPS_FILE    == "clips.gif"
WEBP_FILE     == "clips.webp"

\* the keys of dither_algos, in insertion order
DitherNames == << "bayer1.gif", "bayer2.gif", "bayer3.gif", "bayer4.gif",
                  "floyd_steinberg.gif", "sierra2.gif", "sierra2_4a.gif" >>
NAlgos   == Len(DitherNames)
Variants == { DitherNames[k] : k \in 1..NAlgos }

\* clip file names of prepare_clips, in order
ClipName  == << "clip1.mkv", "clip2.mkv" >>
ClipNames == { ClipName[k] : k \in 1..Len(ClipName) }

Names == {PLAYLIST_FILE, CLIPS_FILE, WEBP_FILE} \cup Variants \cup ClipNames

-----------------------------------------------------------------------------
(* Files: a name holds a file of some byte size, written by some producer, *)
(* or no file.                                                             *)

NoFile == [size |-> 0 - 1, by |-> "none"]
File(n, producer) == [size |-> n, by |-> producer]
exists(fsys, name) == fsys[name] # NoFile
st_size(fsys, name) == fsys[name].size
unlink(fsys, name) == [fsys EXCEPT ![name] = NoFile]
rename(fsys, src, dst) == [fsys EXCEPT ![dst] = fsys[src], ![src] = NoFile]
EmptyFs == [n \in Names |-> NoFile]

RECURSIVE unlink_all(_, _)
unlink_all(fsys, names) ==
    IF names = <<>> THEN fsys
    ELSE unlink_all(unlink(fsys, Head(names)), Tail(names))

-----------------------------------------------------------------------------
(* Arithmetic *)

Min(a, b) == IF a <= b THEN a ELSE b

RECURSIVE GCD(_, _)
GCD(a, b) == IF b = 0 THEN a ELSE GCD(b, a % b)

\* r = file_size_max / s as a fraction in lowest terms
Ratio(budget, sz) == [num |-> budget \div GCD(budget, sz), den |-> sz \div GCD(budget, sz)]

\* floor(1000 * log(d, 2)) for d in 1..256
Log2Table == <<
           0, 1000, 1584, 2000, 2321, 2584, 2807, 3000, 3169, 3321, 3459, 3584, 3700, 3807, 3906, 4000,
        4087, 4169, 4247, 4321, 4392, 4459, 4523, 4584, 4643, 4700, 4754, 4807, 4857, 4906, 4954, 5000,
        5044, 5087, 5129, 5169, 5209, 5247, 5285, 5321, 5357, 5392, 5426, 5459, 5491, 5523, 5554, 5584,
        5614, 5643, 5672, 5700, 5727, 5754, 5781, 5807, 5832, 5857, 5882, 5906, 5930, 5954, 5977, 6000,
        6022, 6044, 6066, 6087, 6108, 6129, 6149, 6169, 6189, 6209, 6228, 6247, 6266, 6285, 6303, 6321,
        6339, 6357, 6375, 6392, 6409, 6426, 6442, 6459, 6475, 6491, 6507, 6523, 6539, 6554, 6569, 6584,
        6599, 6614, 6629, 6643, 6658, 6672, 6686, 6700, 6714, 6727, 6741, 6754, 6768, 6781, 6794, 6807,
        6820, 6832, 6845, 6857, 6870, 6882, 6894, 6906, 6918, 6930, 6942, 6954, 6965, 6977, 6988, 7000,
        7011, 7022, 7033, 7044, 7055, 7066, 7076, 7087, 7098, 7108, 7118, 7129, 7139, 7149, 7159, 7169,
        7179, 7189, 7199, 7209, 7219, 7228, 7238, 7247, 7257, 7266, 7276, 7285, 7294, 7303, 7312, 7321,
        7330, 7339, 7348, 7357, 7366, 7375, 7383, 7392, 7400, 7409, 7417, 7426, 7434, 7442, 7451, 7459,
        7467, 7475, 7483, 7491, 7499, 7507, 7515, 7523, 7531, 7539, 7546, 7554, 7562, 7569, 7577, 7584,
        7592, 7599, 7607, 7614, 7622, 7629, 7636, 7643, 7651, 7658, 7665, 7672, 7679, 7686, 7693, 7700,
        7707, 7714, 7721, 7727, 7734, 7741, 7748, 7754, 7761, 7768, 7774, 7781, 7787, 7794, 7800, 7807,
        7813, 7820, 7826, 7832, 7839, 7845, 7851, 7857, 7864, 7870, 7876, 7882, 7888, 7894, 7900, 7906,
        7912, 7918, 7924, 7930, 7936, 7942, 7948, 7954, 7960, 7965, 7971, 7977, 7982, 7988, 7994, 8000
    >>
Log2(d) == Log2Table[d]

\* floor(10^6 * 1.05^n): the powers of size_factor
RECURSIVE Pow105(_)
Pow105(n) == IF n = 0 THEN 1000000 ELSE (Pow105(n - 1) * 105) \div 100

RECURSIVE least_power(_, _, _)
least_power(a, b, n) ==
    IF Pow105(n) * b >= a * 1000000 THEN n ELSE least_power(a, b, n + 1)

RECURSIVE greatest_power(_, _, _)
greatest_power(a, b, n) ==
    IF Pow105(n + 1) * a <= b * 1000000 THEN greatest_power(a, b, n + 1) ELSE n

\* ceil(log(a / b, size_factor)) for sizes a, b >= 1
ceil_log(a, b) ==
    IF a > b THEN least_power(a, b, 1) ELSE 0 - greatest_power(a, b, 0)

-----------------------------------------------------------------------------
(* next_guess *)

\* floor(x * num / den), computed without forming x * num
muldiv(x, num, den) == (x \div den) * num + ((x % den) * num) \div den

\* log(depth, 2) * frame_rate * r / log(new_depth, 2)
guess_rate(d, fr, nd, ratio) ==
    muldiv(Log2(d) * fr, ratio.num, ratio.den) \div Log2(nd)

\* the while loop of next_guess; it "diverges" when averaging no longer
\* moves new_depth while the predicted rate is still above frame_rate
RECURSIVE bisect(_, _, _, _)
bisect(d, fr, nd, ratio) ==
    IF guess_rate(d, fr, nd, ratio) > fr
    THEN IF (nd + d) \div 2 = nd
         THEN [status |-> "diverges", depth |-> nd, frame_rate |-> fr]
         ELSE bisect(d, fr, (nd + d) \div 2, ratio)
    ELSE [status |-> "returns", depth |-> nd,
          frame_rate |-> guess_rate(d, fr, nd, ratio)]

\* a next_guess without the while loop: the first guess is returned
next_guess_first(d, fr, multi, ratio) ==
    IF multi
    THEN IF d < 1 \/ d \div 2 < 1 \/ Log2(d \div 2) = 0
         THEN [status |-> "raises", depth |-> d, frame_rate |-> fr]
         ELSE [status |-> "returns", depth |-> d \div 2,
               frame_rate |-> guess_rate(d, fr, d \div 2, ratio)]
    ELSE [status |-> "returns", depth |-> d, frame_rate |-> (fr * ratio.num) \div ratio.den]

\* a next_guess that leaves the frame rate alone in single-palette mode
next_guess_keeps_rate(d, fr, multi, ratio) ==
    IF multi
    THEN IF d < 1 \/ d \div 2 < 1 \/ Log2(d \div 2) = 0
         THEN [status |-> "raises", depth |-> d, frame_rate |-> fr]
         ELSE bisect(d, fr, d \div 2, ratio)
    ELSE [status |-> "returns", depth |-> d, frame_rate |-> fr]

\* lines 292-303
next_guess(d, fr, multi, ratio) ==
    IF multi
    THEN IF d < 1 \/ d \div 2 < 1 \/ Log2(d \div 2) = 0
         \* log(0, 2) is a ValueError, dividing by log(1, 2) a ZeroDivisionError
         THEN [status |-> "raises", depth |-> d, frame_rate |-> fr]
         ELSE bisect(d, fr, d \div 2, ratio)
    ELSE [status |-> "returns", depth |-> d, frame_rate |-> (fr * ratio.num) \div ratio.den]

-----------------------------------------------------------------------------
(* create_gif: initial parameters, loop test and regime switch *)

initial_frame_rate(v) == Min(v.frame_rate, FPS(gif_frame_rate_max))

\* a loop test that compares against twice the budget
loop_continues_twice(sz, budget) == sz > budget + budget

\* line 249
loop_continues(sz, budget) == sz > budget

\* a regime switch that asks for both parameters to be below their minimum
regime_switch_both(d, fr, multi, v) ==
    IF multi /\ (d < gif_color_depth_min /\ fr < FPS(gif_frame_rate_min))
    THEN [depth |-> gif_color_depth_max, frame_rate |-> initial_frame_rate(v),
          multi_palette |-> FALSE]
    ELSE [depth |-> d, frame_rate |-> fr, multi_palette |-> multi]

\* lines 252-255
regime_switch(d, fr, multi, v) ==
    IF multi /\ (d < gif_color_depth_min \/ fr < FPS(gif_frame_rate_min))
    THEN [depth |-> gif_color_depth_max, frame_rate |-> initial_frame_rate(v),
          multi_palette |-> FALSE]
    ELSE [depth |-> d, frame_rate |-> fr, multi_palette |-> multi]

-----------------------------------------------------------------------------
(* choose_dither_algo: the scan over the variants and the rename *)

\* a scan that keeps the largest variant
supersedes_larger(current_size, best_size) == current_size >= best_size

\* a scan that replaces the running best by strictly smaller variants only
supersedes_strict(current_size, best_size) == current_size < best_size

\* line 277: the current variant replaces the running best
supersedes(current_size, best_size) == current_size <= best_size

\* best = 0 stands for None; k is the next variant in enumeration order
RECURSIVE scan(_, _, _)
scan(fsys, k, best) ==
    IF k > NAlgos THEN [fs |-> fsys, best |-> best]
    ELSE IF best = 0 THEN scan(fsys, k + 1, k)
    ELSE IF supersedes(st_size(fsys, DitherNames[k]), st_size(fsys, DitherNames[best]))
         THEN scan(unlink(fsys, DitherNames[best]), k + 1, k)
         ELSE scan(unlink(fsys, DitherNames[k]), k + 1, best)

choose_dither_algo(fsys) ==
    LET found == scan(fsys, 1, 0)
    IN  [fs   |-> rename(found.fs, DitherNames[found.best], CLIPS_FILE),
         size |-> st_size(found.fs, DitherNames[found.best])]

\* the files ffmpeg writes for the seven outputs of one trial
write_variants(fsys, sizes) ==
    [n \in Names |->
        IF \E k \in 1..NAlgos : DitherNames[k] = n
        THEN File(sizes[CHOOSE k \in 1..NAlgos : DitherNames[k] = n], n)
        ELSE fsys[n]]

\* what a failed invocation may leave behind: its first n outputs, truncated
write_partial(fsys, n) ==
    [f \in Names |->
        IF \E k \in 1..n : DitherNames[k] = f THEN File(1, f) ELSE fsys[f]]

-----------------------------------------------------------------------------
(* process_video: the order of the stages *)

Stages == << "gif_prepare", "webp_prepare", "frames", "montage" >>

stage_enabled(k) ==
    CASE k = 1 -> args.gif_clips > 0
      [] k = 2 -> args.webp_clips > 0
      [] k = 3 -> frames > 0
      [] k = 4 -> montage_columns > 0 /\ montage_rows > 0

RECURSIVE next_stage(_)
next_stage(k) ==
    IF k > Len(Stages) THEN "return"
    ELSE IF stage_enabled(k) THEN Stages[k] ELSE next_stage(k + 1)

\* continue process_video at the first enabled stage from k on, or return to main
Goto(k) ==
    IF next_stage(k) = "return"
    THEN pc' = "main_loop" /\ outcomes' = Append(outcomes, "ok")
    ELSE pc' = next_stage(k) /\ UNCHANGED outcomes

\* the locals of create_gif and create_webp end with their frames
LeaveGif ==
    /\ depth' = 0 /\ frame_rate' = 0 /\ multi_palette' = TRUE /\ s' = 0
    /\ stat_sizes' = <<>>
LeaveWebp == quality' = 0 /\ size' = 0 - 1

\* main's except clause (lines 194-197)
Caught(stage) ==
    /\ returncode' = returncode + 1
    /\ outcomes' = Append(outcomes, "CalledProcessError")
    /\ failedAt' = stage
    /\ pc' = "main_loop"
    /\ LeaveGif /\ LeaveWebp /\ trials' = 0

\* an exception main does not catch ends the program
Uncaught(stage) ==
    /\ outcomes' = Append(outcomes, "Exception")
    /\ failedAt' = stage
    /\ pc' = "crashed"
    /\ UNCHANGED returncode

clip_list(n) == [k \in 1..n |-> ClipName[k]]

-----------------------------------------------------------------------------
(* The values the variables of a stage hold while that stage is not run *)

IdleMain ==
    /\ pc = "idle" /\ files = 0 /\ i = 0 /\ returncode = 0 /\ outcomes = <<>>
    /\ failedAt = "none"
    /\ args = [keep |-> FALSE, gif_clips |-> 0, webp_clips |-> 0, file_size_max |-> 0]
    /\ video = [frame_rate |-> 0]
    /\ fs = EmptyFs
IdleGif  == depth = 0 /\ frame_rate = 0 /\ multi_palette = TRUE /\ s = 0 /\ trials = 0
            /\ stat_sizes = <<>>
IdleWebp == quality = 0 /\ size = 0 - 1
IdleMimo == inputs = <<>> /\ outputs = <<>> /\ limit = 0 /\ mimo_pc = "idle"
            /\ mimo_i = 0 /\ calls = <<>>
IdleClip == clip = [clips |-> 0] /\ clip_pc = "idle" /\ clip_i = 0
            /\ clip_files = <<>> /\ ffinputs = <<>>
IdleStub == stub_k = 0
IdleGuess == r = [num |-> 0, den |-> 1] /\ new_depth = 0 /\ new_frame_rate = 0
             /\ guess_pc = "idle" /\ passes = 0

-----------------------------------------------------------------------------
(* main, process_video, create_gif, create_webp *)

GifClips  == {0, 2}
WebpClips == {0, 2}

Init ==
    /\ pc = "main_loop"
    /\ files \in 1..MaxFiles
    /\ i = 0
    /\ returncode = 0
    /\ outcomes = <<>>
    /\ failedAt = "none"
    /\ args \in [keep : BOOLEAN, gif_clips : GifClips, webp_clips : WebpClips,
                 file_size_max : Budgets]
    /\ video = [frame_rate |-> 0]
    /\ fs = EmptyFs
    /\ IdleGif /\ IdleWebp /\ IdleMimo /\ IdleClip /\ IdleStub /\ IdleGuess

\* the files found under args.prefix when an input is started
InitialNamespaces ==
    { [n \in Names |-> IF n \in present THEN File(1, "libx265") ELSE NoFile] :
        present \in SUBSET ClipNames }

\* lines 188-193: the next input is started under its prefix and probed
StartInput ==
    /\ pc = "main_loop" /\ i < files
    /\ i' = i + 1
    /\ fs' \in InitialNamespaces
    /\ UNCHANGED <<files, args, otherVars>>

\* VideoMetadata.__init__ finds a video stream
ProbeOk ==
    /\ StartInput
    /\ \E rate \in SourceRates : video' = [frame_rate |-> rate]
    /\ Goto(1)
    /\ UNCHANGED <<returncode, failedAt, gifVars, webpVars>>

\* ffprobe exits non-zero: check_returncode raises CalledProcessError
ProbeFails ==
    /\ StartInput
    /\ Caught("VideoMetadata")
    /\ UNCHANGED video

\* line 21: the source has no video stream
ProbeNoVideo ==
    /\ StartInput
    /\ Uncaught("VideoMetadata")
    /\ UNCHANGED <<video, gifVars, webpVars>>

\* the clip files prepare_clips hands to ffmpeg_mimo
clip_jobs(n) == { k \in 1..n : ~(args.keep /\ exists(fs, ClipName[k])) }

PrepareClips(n, jobs_done) ==
    /\ fs' = [f \in Names |->
                IF f = PLAYLIST_FILE THEN File(n, "playlist")
                ELSE IF \E k \in jobs_done : ClipName[k] = f THEN File(1, "libx265")
                ELSE fs[f]]
    /\ UNCHANGED <<files, i, args, video, otherVars>>

\* lines 202-203 and 245-247: the clips are extracted and create_gif starts
GifPrepareOk ==
    /\ pc = "gif_prepare"
    /\ PrepareClips(args.gif_clips, clip_jobs(args.gif_clips))
    /\ depth' = gif_color_depth_max
    /\ frame_rate' = initial_frame_rate(video)
    /\ multi_palette' = TRUE
    /\ trials' = 0
    /\ stat_sizes' = <<>>
    /\ pc' = "gif_encode"
    /\ UNCHANGED <<s, returncode, outcomes, failedAt, webpVars>>

GifPrepareFails ==
    /\ pc = "gif_prepare"
    /\ clip_jobs(args.gif_clips) # {}
    /\ \E done \in SUBSET clip_jobs(args.gif_clips) :
          PrepareClips(args.gif_clips, done)
    /\ Caught("prepare_clips")

\* lines 268-271: one invocation writes the seven variants
GifEncodeOk ==
    /\ pc = "gif_encode" /\ trials < MaxTrials
    /\ \E sizes \in [1..NAlgos -> EncodedSizes] : fs' = write_variants(fs, sizes)
    /\ trials' = trials + 1
    /\ pc' = "gif_select"
    /\ UNCHANGED <<files, i, returncode, outcomes, failedAt, args, video,
                   depth, frame_rate, multi_palette, s, stat_sizes, webpVars,
                   otherVars>>

GifEncodeFails ==
    /\ pc = "gif_encode" /\ trials < MaxTrials
    /\ \E n \in 0..NAlgos : fs' = write_partial(fs, n)
    /\ Caught("create_gif")
    /\ UNCHANGED <<files, i, args, video, otherVars>>

\* lines 272-283 and 249-255: the smallest variant is kept, and create_gif
\* either returns or computes the parameters of the next trial
GifSelect ==
    /\ pc = "gif_select"
    /\ LET c == choose_dither_algo(fs)
           g == next_guess(depth, frame_rate, multi_palette,
                           Ratio(args.file_size_max, c.size))
           n == regime_switch(g.depth, g.frame_rate, multi_palette, video)
       IN  /\ fs' = c.fs
           /\ s' = c.size
           /\ stat_sizes' = [k \in 1..NAlgos |-> st_size(fs, DitherNames[k])]
           /\ IF ~loop_continues(c.size, args.file_size_max)
              THEN /\ pc' = "gif_cleanup"
                   /\ UNCHANGED <<depth, frame_rate, multi_palette,
                                  returncode, outcomes, failedAt>>
              ELSE IF g.status = "returns"
              THEN /\ depth' = n.depth
                   /\ frame_rate' = n.frame_rate
                   /\ multi_palette' = n.multi_palette
                   /\ pc' = "gif_encode"
                   /\ UNCHANGED <<returncode, outcomes, failedAt>>
              ELSE IF g.status = "raises"
              THEN /\ Uncaught("create_gif")
                   /\ UNCHANGED <<depth, frame_rate, multi_palette>>
              ELSE /\ pc' = "hung"
                   /\ UNCHANGED <<depth, frame_rate, multi_palette,
                                  returncode, outcomes, failedAt>>
    /\ UNCHANGED <<files, i, args, video, trials, webpVars, otherVars>>

\* cleanup_clips
cleanup_clips(fsys, n) ==
    IF args.keep THEN fsys
    ELSE unlink(unlink_all(fsys, clip_list(n)), PLAYLIST_FILE)

\* line 204
GifCleanup ==
    /\ pc = "gif_cleanup"
    /\ fs' = cleanup_clips(fs, args.gif_clips)
    /\ LeaveGif /\ trials' = 0
    /\ Goto(2)
    /\ UNCHANGED <<files, i, returncode, failedAt, args, video, webpVars,
                   otherVars>>

\* lines 206-207 and 306-309
WebpPrepareOk ==
    /\ pc = "webp_prepare"
    /\ PrepareClips(args.webp_clips, clip_jobs(args.webp_clips))
    /\ quality' = InitialQuality
    /\ size' = 0 - 1
    /\ trials' = 0
    /\ pc' = "webp_encode"
    /\ UNCHANGED <<returncode, outcomes, failedAt,
                   depth, frame_rate, multi_palette, s, stat_sizes>>

WebpPrepareFails ==
    /\ pc = "webp_prepare"
    /\ clip_jobs(args.webp_clips) # {}
    /\ \E done \in SUBSET clip_jobs(args.webp_clips) :
          PrepareClips(args.webp_clips, done)
    /\ Caught("prepare_clips")

\* the loop test of create_webp
webp_continues(sz, budget) == sz = 0 - 1 \/ budget < sz

\* lines 310-323: one pass of the loop of create_webp
WebpTrialOk ==
    /\ pc = "webp_encode" /\ trials < MaxTrials
    /\ \E sz \in EncodedSizes :
          /\ fs' = [fs EXCEPT ![WEBP_FILE] = File(sz, "libwebp")]
          /\ size' = sz
          /\ quality' = quality - ceil_log(sz, args.file_size_max)
          /\ pc' = IF webp_continues(sz, args.file_size_max)
                   THEN "webp_encode" ELSE "webp_cleanup"
    /\ trials' = trials + 1
    /\ UNCHANGED <<files, i, returncode, outcomes, failedAt, args, video,
                   depth, frame_rate, multi_palette, s, stat_sizes,
                   otherVars>>

\* the invocation fails before or after it opened its output
WebpTrialFails ==
    /\ pc = "webp_encode" /\ trials < MaxTrials
    /\ \/ fs' = fs
       \/ fs' = [fs EXCEPT ![WEBP_FILE] = File(1, "libwebp")]
    /\ Caught("create_webp")
    /\ UNCHANGED <<files, i, args, video, otherVars>>

\* line 208
WebpCleanup ==
    /\ pc = "webp_cleanup"
    /\ fs' = cleanup_clips(fs, args.webp_clips)
    /\ LeaveWebp /\ trials' = 0
    /\ Goto(3)
    /\ UNCHANGED <<files, i, returncode, failedAt, args, video,
                   depth, frame_rate, multi_palette, s, stat_sizes,
                   otherVars>>

\* lines 209-210; the still frames are not among the files followed here
FramesOk ==
    /\ pc = "frames"
    /\ Goto(4)
    /\ UNCHANGED <<files, i, returncode, failedAt, args, video, fs, gifVars, webpVars,
                   otherVars>>

FramesFails ==
    /\ pc = "frames"
    /\ Caught("create_frames")
    /\ UNCHANGED <<files, i, args, video, fs, otherVars>>

\* lines 211-212
MontageOk ==
    /\ pc = "montage"
    /\ Goto(5)
    /\ UNCHANGED <<files, i, returncode, failedAt, args, video, fs, gifVars, webpVars,
                   otherVars>>

MontageFails ==
    /\ pc = "montage"
    /\ Caught("create_montage")
    /\ UNCHANGED <<files, i, args, video, fs, otherVars>>

\* line 198
MainReturn ==
    /\ pc = "main_loop" /\ i = files
    /\ pc' = "done"
    /\ UNCHANGED <<files, i, returncode, outcomes, failedAt, args, video, fs,
                   gifVars, webpVars, otherVars>>

Next ==
    \/ ProbeOk \/ ProbeFails \/ ProbeNoVideo
    \/ GifPrepareOk \/ GifPrepareFails
    \/ GifEncodeOk \/ GifEncodeFails \/ GifSelect \/ GifCleanup
    \/ WebpPrepareOk \/ WebpPrepareFails
    \/ WebpTrialOk \/ WebpTrialFails \/ WebpCleanup
    \/ FramesOk \/ FramesFails \/ MontageOk \/ MontageFails
    \/ MainReturn

Spec == Init /\ [][Next]_vars


-----------------------------------------------------------------------------
(* Properties of main, create_gif, create_webp and choose_dither_algo *)

RECURSIVE SeqMin(_)
SeqMin(q) == IF Len(q) = 1 THEN q[1] ELSE Min(q[1], SeqMin(Tail(q)))

\* the positions at which the last scan read the minimum size
MinPositions == { k \in 1..Len(stat_sizes) : stat_sizes[k] = SeqMin(stat_sizes) }
Selected == pc \in {"gif_encode", "gif_cleanup"} /\ stat_sizes # <<>>
Tied == Selected /\ Cardinality(MinPositions) >= 2

\* C1: when create_gif or create_webp has returned normally, the size reported
\* by its last trial is within file_size_max and is the size of the file at
\* the canonical output path.
C1_ReturnsWithinBudget ==
    /\ pc = "gif_cleanup" =>
          /\ s <= args.file_size_max
          /\ exists(fs, CLIPS_FILE) /\ st_size(fs, CLIPS_FILE) = s
    /\ pc = "webp_cleanup" =>
          /\ size # 0 - 1 /\ size <= args.file_size_max
          /\ exists(fs, WEBP_FILE) /\ st_size(fs, WEBP_FILE) = size

\* both searches returned, the second after more than one trial
C1_Witness ==
    /\ pc = "webp_cleanup" /\ trials >= 2
    /\ exists(fs, CLIPS_FILE) /\ st_size(fs, CLIPS_FILE) <= args.file_size_max

\* C4: in multi-palette mode, an update below a minimum makes the next trial
\* run at (gif_color_depth_max, min(source rate, gif_frame_rate_max), single
\* palette); otherwise the next trial runs at the updated values, still in
\* multi-palette mode.
C4_RegimeSwitch ==
    [][ (pc = "gif_select" /\ pc' = "gif_encode" /\ multi_palette) =>
          LET g == next_guess(depth, frame_rate, TRUE, Ratio(args.file_size_max, s'))
          IN  IF g.depth < gif_color_depth_min \/ g.frame_rate < FPS(gif_frame_rate_min)
              THEN /\ depth' = gif_color_depth_max
                   /\ frame_rate' = Min(video.frame_rate, FPS(gif_frame_rate_max))
                   /\ multi_palette' = FALSE
              ELSE /\ depth' = g.depth
                   /\ frame_rate' = g.frame_rate
                   /\ multi_palette' = TRUE ]_vars

\* the trial after a switch caused by the depth alone (the rate is still
\* above its minimum after three multi-palette updates)
C4_Witness ==
    /\ pc = "gif_encode" /\ trials = 4 /\ ~multi_palette
    /\ depth = gif_color_depth_max
    /\ frame_rate = initial_frame_rate(video)

\* C5: within one multi-palette run of create_gif no trial uses a higher
\* frame rate than the multi-palette trial before it.
C5_RateNonIncreasing ==
    [][ (pc = "gif_select" /\ pc' = "gif_encode" /\ multi_palette /\ multi_palette')
          => frame_rate' <= frame_rate ]_vars

\* a second multi-palette trial whose depth was averaged back towards 256
C5_Witness ==
    /\ pc = "gif_encode" /\ trials >= 1 /\ multi_palette
    /\ depth > gif_color_depth_max \div 2
    /\ frame_rate < initial_frame_rate(video)

\* C7: after a trial of choose_dither_algo no variant file is left, the
\* canonical file exists and the returned size is the smallest size produced.
C7_SmallestKept ==
    Selected =>
        /\ \A v \in Variants : ~exists(fs, v)
        /\ exists(fs, CLIPS_FILE)
        /\ st_size(fs, CLIPS_FILE) = SeqMin(stat_sizes)
        /\ s = SeqMin(stat_sizes)

\* a trial whose variants differed in size
C7_Witness ==
    /\ Selected
    /\ \E k \in 1..NAlgos : stat_sizes[k] > SeqMin(stat_sizes)
    /\ stat_sizes[1] > stat_sizes[2]

\* C8: a failed invocation in a trial of create_gif or create_webp ends the
\* search and leaves no file at the canonical output path of that search.
C8_NoArtifactAfterFailure ==
    (pc = "main_loop" /\ outcomes # <<>>
        /\ outcomes[Len(outcomes)] = "CalledProcessError") =>
        /\ failedAt = "create_gif" => ~exists(fs, CLIPS_FILE)
        /\ failedAt = "create_webp" => ~exists(fs, WEBP_FILE)

\* C9: a failing input is caught, the later inputs are still processed, and
\* the status returned is non-zero exactly when some input failed.
C9_FailuresCaught ==
    /\ pc # "crashed"
    /\ pc = "done" =>
          /\ Len(outcomes) = files
          /\ (returncode # 0) <=> (\E k \in 1..Len(outcomes) : outcomes[k] # "ok")

\* C10 as stated: among variants tied at the minimum size the earliest
\* enumerated one is kept.
C10_EarliestKept ==
    Tied => \A k \in MinPositions :
                (\A j \in MinPositions : k <= j) => fs[CLIPS_FILE].by = DitherNames[k]

\* C10 amended: among variants tied at the minimum size the latest enumerated
\* one is kept.
C10_LatestKept ==
    Tied => \A k \in MinPositions :
                (\A j \in MinPositions : k >= j) => fs[CLIPS_FILE].by = DitherNames[k]

\* a tie at the minimum between the first and the fourth variant only
C10_Witness ==
    /\ Tied
    /\ MinPositions = {1, 4}
    /\ fs[CLIPS_FILE].by = DitherNames[4]

-----------------------------------------------------------------------------
(* ffmpeg_mimo: the jobs are numbered; inputs[k] and outputs[k] are the     *)
(* input and the output arguments of job k.                                *)

\* the Python slice q[a:b]
slice(q, a, b) == SubSeq(q, a + 1, Min(b, Len(q)))

\* a mapping that numbers the input streams from 1
zip_range_from_one(count, outs) ==
    [j \in 1..Min(count, Len(outs)) |-> [stream |-> j, output |-> outs[j]]]

\* lines 409 and 417, zip(range(count), outs): the pairs -map j:v, out
zip_range(count, outs) ==
    [j \in 1..Min(count, Len(outs)) |-> [stream |-> j - 1, output |-> outs[j]]]

\* the argument list of one invocation: the inputs of the batch, then one
\* mapped output per job
invocation(a, b, count) ==
    [inputs |-> slice(inputs, a, b), maps |-> zip_range(count, slice(outputs, a, b))]

mimo_N == Len(inputs) \div limit
mimo_M == Len(inputs) % limit

\* the position after the batches 0..k-1 of the for loop
mimo_position(k) ==
    IF k < mimo_N THEN "loop" ELSE IF mimo_M # 0 THEN "rest" ELSE "returned"

InitMimo ==
    /\ \E n \in 0..MaxJobs :
          /\ inputs = [k \in 1..n |-> k]
          /\ outputs = [k \in 1..n |-> k]
    /\ limit \in 1..MaxLimit
    /\ mimo_pc = "called"
    /\ mimo_i = 0
    /\ calls = <<>>
    /\ IdleMain /\ IdleGif /\ IdleWebp /\ IdleClip /\ IdleStub /\ IdleGuess

\* lines 399-402
MimoEnter ==
    /\ mimo_pc = "called"
    /\ mimo_pc' = mimo_position(0)
    /\ UNCHANGED <<inputs, outputs, limit, mimo_i, calls>>
    /\ UNCHANGED <<mainVars, gifVars, webpVars, stub_k, clipVars, guessVars>>

\* lines 403-410: one full batch
MimoBatchOk ==
    /\ mimo_pc = "loop"
    /\ calls' = Append(calls, invocation(mimo_i * limit, mimo_i * limit + limit, limit))
    /\ mimo_i' = mimo_i + 1
    /\ mimo_pc' = mimo_position(mimo_i + 1)
    /\ UNCHANGED <<inputs, outputs, limit>>
    /\ UNCHANGED <<mainVars, gifVars, webpVars, stub_k, clipVars, guessVars>>

\* the invocation of a full batch exits non-zero
MimoBatchFails ==
    /\ mimo_pc = "loop"
    /\ calls' = Append(calls, invocation(mimo_i * limit, mimo_i * limit + limit, limit))
    /\ mimo_pc' = "raised"
    /\ UNCHANGED <<inputs, outputs, limit, mimo_i>>
    /\ UNCHANGED <<mainVars, gifVars, webpVars, stub_k, clipVars, guessVars>>

\* lines 411-418: the shorter last batch
MimoRestOk ==
    /\ mimo_pc = "rest"
    /\ calls' = Append(calls, invocation(mimo_N * limit, mimo_N * limit + mimo_M, mimo_M))
    /\ mimo_pc' = "returned"
    /\ UNCHANGED <<inputs, outputs, limit, mimo_i>>
    /\ UNCHANGED <<mainVars, gifVars, webpVars, stub_k, clipVars, guessVars>>

MimoRestFails ==
    /\ mimo_pc = "rest"
    /\ calls' = Append(calls, invocation(mimo_N * limit, mimo_N * limit + mimo_M, mimo_M))
    /\ mimo_pc' = "raised"
    /\ UNCHANGED <<inputs, outputs, limit, mimo_i>>
    /\ UNCHANGED <<mainVars, gifVars, webpVars, stub_k, clipVars, guessVars>>

NextMimo == MimoEnter \/ MimoBatchOk \/ MimoBatchFails \/ MimoRestOk \/ MimoRestFails

SpecMimo == InitMimo /\ [][NextMimo]_vars

RECURSIVE Flatten(_)
Flatten(qs) == IF qs = <<>> THEN <<>> ELSE Head(qs) \o Flatten(Tail(qs))

\* C2: ffmpeg_mimo issues ceil(n / limit) invocations over consecutive slices
\* of the jobs, all of limit jobs but a possibly shorter last one, and in each
\* the output at position j is mapped to input stream j, the input of its job.
C2_Batches ==
    mimo_pc = "returned" =>
        /\ Len(calls) = (Len(inputs) + limit - 1) \div limit
        /\ Flatten([c \in 1..Len(calls) |-> calls[c].inputs]) = inputs
        /\ \A c \in 1..Len(calls) :
              /\ c < Len(calls) => Len(calls[c].inputs) = limit
              /\ Len(calls[c].inputs) \in 1..limit
              /\ Len(calls[c].maps) = Len(calls[c].inputs)
              /\ \A j \in 1..Len(calls[c].maps) :
                    /\ calls[c].maps[j].stream = j - 1
                    /\ calls[c].maps[j].output
                          = outputs[calls[c].inputs[calls[c].maps[j].stream + 1]]

\* seven jobs in batches of three: the sizes are 3, 3, 1
C2_Witness ==
    /\ mimo_pc = "returned" /\ Len(inputs) = 7 /\ limit = 3
    /\ Len(calls) = 3 /\ Len(calls[3].inputs) = 1

-----------------------------------------------------------------------------
(* prepare_clips: times are in seconds; a start time is kept as the exact   *)
(* fraction num / den with den = 2 * (clips + 1).                           *)

MaxCut     == 1     \* seconds cut at either end
MaxClips   == 3     \* clips asked for
MaxClipLen == 3     \* seconds per clip

length_with_cuts == clip.length - clip.cut_start - clip.cut_end
ss_den == 2 * (clip.clips + 1)

\* line 227: cut_start + length_with_cuts * (i + 1) / (clips + 1) - length / 2
ss_num(k) ==
    clip.cut_start * ss_den + 2 * length_with_cuts * (k + 1)
        - clip.clip_length * (clip.clips + 1)

InitClips ==
    /\ clip \in [length : 1..MaxDur, cut_start : 0..MaxCut, cut_end : 0..MaxCut,
                 clips : 1..MaxClips, clip_length : 1..MaxClipLen,
                 keep : BOOLEAN, existing : SUBSET (1..MaxClips)]
    /\ clip.length - clip.cut_start - clip.cut_end > 0
    /\ clip.existing \subseteq 1..clip.clips
    /\ clip_pc = "loop"
    /\ clip_i = 0
    /\ clip_files = <<>>
    /\ ffinputs = <<>>
    /\ IdleMain /\ IdleGif /\ IdleWebp /\ IdleMimo /\ IdleStub /\ IdleGuess

\* lines 223-240: one pass of the loop
ClipPlan ==
    /\ clip_pc = "loop" /\ clip_i < clip.clips
    /\ clip_files' = Append(clip_files, clip_i + 1)
    /\ ffinputs' = IF ~(clip.keep /\ (clip_i + 1) \in clip.existing)
                   THEN Append(ffinputs, [clip |-> clip_i + 1, ss |-> ss_num(clip_i),
                                          length |-> clip.clip_length])
                   ELSE ffinputs
    /\ clip_i' = clip_i + 1
    /\ clip_pc' = IF clip_i + 1 < clip.clips THEN "loop" ELSE "dispatch"
    /\ UNCHANGED clip
    /\ UNCHANGED <<mainVars, gifVars, webpVars, stub_k, mimoVars, guessVars>>

\* lines 241-242
ClipDispatchOk ==
    /\ clip_pc = "dispatch"
    /\ clip_pc' = "returned"
    /\ UNCHANGED <<clip, clip_i, clip_files, ffinputs>>
    /\ UNCHANGED <<mainVars, gifVars, webpVars, stub_k, mimoVars, guessVars>>

\* an invocation of ffmpeg_mimo exits non-zero
ClipDispatchFails ==
    /\ clip_pc = "dispatch" /\ ffinputs # <<>>
    /\ clip_pc' = "raised"
    /\ UNCHANGED <<clip, clip_i, clip_files, ffinputs>>
    /\ UNCHANGED <<mainVars, gifVars, webpVars, stub_k, mimoVars, guessVars>>

NextClips == ClipPlan \/ ClipDispatchOk \/ ClipDispatchFails

SpecClips == InitClips /\ [][NextClips]_vars

\* C3: prepare_clips plans clips windows, each within
\* [cut_start, length - cut_end], with strictly increasing start times.
C3_WindowsContained ==
    clip_pc = "returned" =>
        /\ Len(clip_files) = clip.clips
        /\ \A w \in 1..Len(ffinputs) :
              /\ ffinputs[w].ss >= clip.cut_start * ss_den
              /\ ffinputs[w].ss + ffinputs[w].length * ss_den
                    <= (clip.length - clip.cut_end) * ss_den
        /\ \A w \in 1..Len(ffinputs) - 1 : ffinputs[w].ss < ffinputs[w + 1].ss

-----------------------------------------------------------------------------
(* create_gif over an encoder stub: every variant of a trial has the size   *)
(* k * depth * frame_rate, and file_size_max is a quarter of the size of    *)
(* the first trial.                                                         *)

\* frame rates of the sources, in 1/100 fps
StubRates == {1000, 1200, 1500, 2000, 2397, 2500, 2997, 3000, 5000, 6000}

stub_size(k, d, fr) == k * d * fr

InitStub ==
    /\ stub_k \in 1..MaxK
    /\ video \in [frame_rate : StubRates]
    /\ args = [keep |-> FALSE, gif_clips |-> 2, webp_clips |-> 0,
               file_size_max |-> stub_size(stub_k, gif_color_depth_max,
                                           initial_frame_rate(video)) \div 4]
    /\ pc = "gif_encode"
    /\ files = 1 /\ i = 1 /\ returncode = 0 /\ outcomes = <<>> /\ failedAt = "none"
    /\ fs = [n \in Names |->
                IF n = PLAYLIST_FILE THEN File(2, "playlist")
                ELSE IF n \in ClipNames THEN File(1, "libx265") ELSE NoFile]
    /\ depth = gif_color_depth_max
    /\ frame_rate = initial_frame_rate(video)
    /\ multi_palette = TRUE
    /\ s = 0 /\ trials = 0 /\ stat_sizes = <<>>
    /\ IdleWebp /\ IdleMimo /\ IdleClip /\ IdleGuess

\* lines 268-271 with the stub as the encoder
StubEncode ==
    /\ pc = "gif_encode" /\ trials < MaxTrials
    /\ fs' = write_variants(fs, [k \in 1..NAlgos |-> stub_size(stub_k, depth, frame_rate)])
    /\ trials' = trials + 1
    /\ pc' = "gif_select"
    /\ UNCHANGED <<files, i, returncode, outcomes, failedAt, args, video,
                   depth, frame_rate, multi_palette, s, stat_sizes, webpVars,
                   otherVars>>

NextStub == StubEncode \/ GifSelect

SpecStub == InitStub /\ [][NextStub]_vars /\ WF_vars(NextStub)

\* C6: over the stub, create_gif reaches a trial within the budget after at
\* most three trials and returns.
C6_StubTerminates ==
    /\ [](trials <= 3)
    /\ <>(pc = "gif_cleanup" /\ s <= args.file_size_max)

\* a search that went through the regime switch: three trials
C6_Witness ==
    /\ pc = "gif_cleanup" /\ trials = 3 /\ ~multi_palette
    /\ s <= args.file_size_max

-----------------------------------------------------------------------------
(* next_guess in multi-palette mode, one pass of its while loop at a time.  *)
(* depth and frame_rate hold its arguments.                                *)

MaxPasses == 10     \* passes of the while loop followed

\* frame rates passed in, in 1/100 fps, and ratios r = file_size_max / s
GuessRates  == {1200, 5000}
GuessRatios == { [num |-> 1, den |-> 2], [num |-> 15, den |-> 16],
                 [num |-> 1999, den |-> 2000] }

InitGuess ==
    /\ depth \in gif_color_depth_min..gif_color_depth_max
    /\ frame_rate \in GuessRates
    /\ r \in GuessRatios
    /\ multi_palette = TRUE
    /\ new_depth = 0 /\ new_frame_rate = 0
    /\ guess_pc = "called"
    /\ passes = 0
    /\ s = 0 /\ trials = 0 /\ stat_sizes = <<>>
    /\ IdleMain /\ IdleWebp /\ IdleMimo /\ IdleClip /\ IdleStub

\* lines 294-295: the first guess; log(0, 2) and a division by log(1, 2) raise
GuessEnter ==
    /\ guess_pc = "called"
    /\ IF depth \div 2 < 1 \/ Log2(depth \div 2) = 0
       THEN guess_pc' = "raised" /\ UNCHANGED <<new_depth, new_frame_rate>>
       ELSE /\ new_depth' = depth \div 2
            /\ new_frame_rate' = guess_rate(depth, frame_rate, depth \div 2, r)
            /\ guess_pc' = "loop"
    /\ UNCHANGED <<r, passes>>
    /\ UNCHANGED <<mainVars, gifVars, webpVars, stub_k, mimoVars, clipVars>>

\* lines 296-298: one pass of the while loop
GuessPass ==
    /\ guess_pc = "loop" /\ new_frame_rate > frame_rate
    /\ passes < MaxPasses
    /\ new_depth' = (new_depth + depth) \div 2
    /\ new_frame_rate' = guess_rate(depth, frame_rate, (new_depth + depth) \div 2, r)
    /\ passes' = passes + 1
    /\ UNCHANGED <<r, guess_pc>>
    /\ UNCHANGED <<mainVars, gifVars, webpVars, stub_k, mimoVars, clipVars>>

\* line 299
GuessReturn ==
    /\ guess_pc = "loop" /\ ~(new_frame_rate > frame_rate)
    /\ guess_pc' = "returned"
    /\ UNCHANGED <<r, new_depth, new_frame_rate, passes>>
    /\ UNCHANGED <<mainVars, gifVars, webpVars, stub_k, mimoVars, clipVars>>

NextGuess == GuessEnter \/ GuessPass \/ GuessReturn

SpecGuess == InitGuess /\ [][NextGuess]_vars

\* C11: for gif_color_depth_min <= depth <= gif_color_depth_max and 0 < r < 1
\* the while loop of next_guess ends, next_guess returns a depth below the one
\* passed in, and nothing is raised.  The loop is deterministic: it ends if
\* and only if no pass starts from the values the pass before started from.
C11_BisectionTerminates ==
    /\ guess_pc # "raised"
    /\ guess_pc = "returned" => new_depth < depth
    /\ (guess_pc = "loop" /\ new_frame_rate > frame_rate) =>
          (new_depth + depth) \div 2 # new_depth

====
